---- MODULE Spec2Model ----
(***************************************************************************)
(* j2cli: FilePathLoader.get_source, render_template and render_command    *)
(* of j2cli/cli.py, as run by Python 2 (the loader calls .decode on what   *)
(* f.read() returns, and open() raises IOError for every OS failure).      *)
(*                                                                         *)
(* The process has one working directory (os.getcwd()); the file system    *)
(* holds one template file name in each of two directories and, possibly,  *)
(* a jinja2_custom module in the working directory.  A call is one atomic  *)
(* step (the program is single threaded); the record it leaves in `call`   *)
(* is what the caller observes, together with the order of its steps.  The *)
(* file system changes between calls.                                      *)
(***************************************************************************)
EXTENDS Naturals, Sequences, FiniteSets, TLC

VARIABLES
    files,       \* directory -> state of the template file in it
    extMod,      \* jinja2_custom in the working directory (an ExtKinds member)
    sysPath,     \* sys.path
    sysModules,  \* sys.modules entry of jinja2_custom ("none" when not imported)
    lastRead,    \* bytes of the template file as the latest call read them
    call         \* the call that has just ended

vars == <<files, extMod, sysPath, sysModules, lastRead, call>>

\* Longest sys.path for which a further render is started.
MaxPathLen == 3

(***************************************************************************)
(* Paths and files                                                         *)
(***************************************************************************)
Dirs == {"d1", "d2"}

\* os.getcwd(): the directory the OS resolves relative paths against.
ProcCwd == "d1"

AbsPath(d, n) == [abs |-> TRUE, dir |-> d, name |-> n]
RelPath(n) == [abs |-> FALSE, dir |-> "", name |-> n]
NoPath == [abs |-> FALSE, dir |-> "", name |-> ""]

\* The template paths a caller passes: a relative one and an absolute one.
TemplateArgs == {RelPath("t.j2"), AbsPath("d2", "t.j2")}

\* os.path.join(cwd, template): an absolute second component discards the first.
PathJoin(cwd, p) == IF p.abs THEN p ELSE AbsPath(cwd, p.name)

\* Template text: a sequence of literal chunks and {{ name }} outputs.
Lit(s) == [kind |-> "lit", val |-> s]
Var(n) == [kind |-> "var", val |-> n]
TplPlain == <<Lit("port="), Var("name")>>
TplTwoVars == <<Var("name"), Var("missing")>>
Texts == {TplPlain, TplTwoVars}

\* A byte string: either the UTF-8 encoding of a text, or bytes that are no
\* valid UTF-8.
Utf8(text) == [valid |-> TRUE, text |-> text]
BadBytes == [valid |-> FALSE, text |-> <<>>]
NoBytes == [valid |-> FALSE, text |-> <<"(nothing)">>]

\* State of a file: missing, present but not readable by the process, or
\* readable with some bytes in it.
NoFile == [errno |-> "ENOENT", bytes |-> NoBytes]
FileStates ==
    {NoFile, [errno |-> "EACCES", bytes |-> NoBytes]}
        \cup {[errno |-> "", bytes |-> b] : b \in {Utf8(t) : t \in Texts} \cup {BadBytes}}

NoException == [type |-> "", arg |-> ""]
Exception(t, a) == [type |-> t, arg |-> a]

\* A loader that keeps what it read: later reads return the kept bytes.
OpenAndReadCached(p) ==
    LET st == files[PathJoin(ProcCwd, p).dir]
    IN IF lastRead.valid THEN [exc |-> NoException, bytes |-> lastRead]
       ELSE IF st.errno # ""
       THEN [exc |-> Exception("IOError", st.errno), bytes |-> NoBytes]
       ELSE [exc |-> NoException, bytes |-> st.bytes]

\* open(path, 'r') followed by f.read(): the OS resolves a relative path
\* against the working directory of the process; every failure is an IOError.
OpenAndRead(p) ==
    LET st == files[PathJoin(ProcCwd, p).dir]
    IN IF st.errno # ""
       THEN [exc |-> Exception("IOError", st.errno), bytes |-> NoBytes]
       ELSE [exc |-> NoException, bytes |-> st.bytes]

\* bytes.decode('utf-8')
Decode(b) ==
    IF b.valid THEN [exc |-> NoException, text |-> b.text]
    ELSE [exc |-> Exception("UnicodeDecodeError", "utf-8"), text |-> <<>>]

\* unicode.encode('utf-8')
Encode(text) == Utf8(text)

(***************************************************************************)
(* FilePathLoader.get_source                                               *)
(***************************************************************************)
\* A handler for the missing-file errno only.
CaughtOnlyENOENT(exc) == exc.type = "IOError" /\ exc.arg = "ENOENT"

\* `except IOError:`
ExceptIOError(exc) == exc.type = "IOError"

\* open(filename): the path joined with the cwd of the loader.
OpenTargetFilename(filename, template) == filename

\* The path handed to open(): the template argument, not the joined filename.
OpenTarget(filename, template) == template

\* get_source(environment, template) of a FilePathLoader(cwd).  `opens` counts
\* the open() calls.
get_source(cwd, template) ==
    LET filename == PathJoin(cwd, template)
        f == OpenAndRead(OpenTarget(filename, template))
        d == Decode(f.bytes)
        failed(e) == [exc |-> e, contents |-> <<>>, filename |-> NoPath,
                      uptodate |-> FALSE, bytes |-> f.bytes, opens |-> 1]
    IN IF f.exc # NoException
       THEN IF ExceptIOError(f.exc)
            THEN failed(Exception("TemplateNotFound", template.name))
            ELSE failed(f.exc)
       ELSE IF d.exc # NoException
            THEN failed(d.exc)
            ELSE [exc |-> NoException, contents |-> d.text, filename |-> filename,
                  uptodate |-> FALSE, bytes |-> f.bytes, opens |-> 1]

(***************************************************************************)
(* The filter and test registries, and the jinja2_custom module            *)
(***************************************************************************)
\* The contexts a caller passes: `name` alone, `name` and `missing`, nothing.
NoNames == [n \in {} |-> ""]
Contexts == {("name" :> "hi"), ("name" :> "hi") @@ ("missing" :> "there"), NoNames}

\* env.filters and env.tests of a new jinja2.Environment (two of jinja2's own).
DefaultFilters == ("upper" :> "jinja2.filters.do_upper")
DefaultTests == ("defined" :> "jinja2.tests.test_defined")

\* jinja2_custom.py in the working directory: not there, raising while it is
\* executed, or defining FILTERS and TESTS, FILTERS alone, or TESTS alone.
ExtKinds == {"absent", "broken", "full", "filters_only", "tests_only"}
LoadableKinds == {"full", "filters_only", "tests_only"}

ModuleRaises == Exception("RuntimeError", "raised by jinja2_custom")

\* hasattr(jinja2_custom, 'FILTERS'), jinja2_custom.FILTERS and the same for TESTS.
HasFilters(m) == m \in {"full", "filters_only"}
HasTests(m) == m \in {"full", "tests_only"}
ModFilters(m) ==
    IF m = "full"
    THEN ("docker_link" :> "jinja2_custom.docker_link") @@ ("myfilter" :> "jinja2_custom.myfilter")
    ELSE ("myfilter" :> "jinja2_custom.myfilter2")
ModTests(m) ==
    IF m = "full"
    THEN ("mytest" :> "jinja2_custom.mytest")
    ELSE ("defined" :> "jinja2_custom.defined")

\* A merge that keeps the entries already registered.
DictUpdateKeep(d, other) == d @@ other

\* dict.update(other): the entries of `other` replace same-named ones.
DictUpdate(d, other) == other @@ d

\* j2cli.extras.filters.docker_link, the filter render_template registers.
DockerLink == "j2cli.extras.filters.docker_link"

\* jinja2.Undefined, the policy of an Environment given no `undefined`.
UndefinedPolicyDefault == "default"

\* undefined=jinja2.StrictUndefined
UndefinedPolicy == "strict"

\* jinja2.Environment(loader=FilePathLoader(cwd), undefined=...): a new engine,
\* with jinja2's own filters and tests and nothing loaded.
Environment(cwd) ==
    [loader |-> cwd, undefined |-> UndefinedPolicy,
     filters |-> DefaultFilters, tests |-> DefaultTests]

\* Looking the module up by importing it: a module that raises counts as
\* not found.
find_loader_by_import(path) ==
    /\ \E i \in 1..Len(path) : path[i] = ProcCwd
    /\ extMod \in LoadableKinds

\* pkgutil.find_loader('jinja2_custom') is not None: some directory of sys.path
\* holds the module (it is looked up, not executed).
find_loader(path) ==
    /\ \E i \in 1..Len(path) : path[i] = ProcCwd
    /\ extMod # "absent"

\* The flag as passed, without the find_loader check.
CustomEnabledUnchecked(found, custom_filters) == custom_filters

\* `if find_loader(...) is None: custom_filters = False`
CustomEnabled(found, custom_filters) == found /\ custom_filters

\* `import jinja2_custom`: the module sys.modules holds, or else the one found
\* on the path, executed; a module that raises is not entered in sys.modules.
ImportModule(path) ==
    IF sysModules # "none"
    THEN [exc |-> NoException, mod |-> sysModules, modules |-> sysModules]
    ELSE IF ~find_loader(path)
    THEN [exc |-> Exception("ImportError", "No module named jinja2_custom"),
          mod |-> "none", modules |-> "none"]
    ELSE IF extMod = "broken"
    THEN [exc |-> ModuleRaises, mod |-> "none", modules |-> "none"]
    ELSE [exc |-> NoException, mod |-> extMod, modules |-> extMod]

\* "Register customs": from sys.path.append to sys.path.pop.  An exception
\* leaves the block at the statement that raised it.
RegisterCustoms(env, custom_filters) ==
    LET path1 == Append(sysPath, ProcCwd)
        found == find_loader(path1)
        custom == CustomEnabled(found, custom_filters)
        imp == ImportModule(path1)
        f1 == IF HasFilters(imp.mod) THEN DictUpdate(env.filters, ModFilters(imp.mod))
              ELSE env.filters
        t1 == IF HasTests(imp.mod) THEN DictUpdate(env.tests, ModTests(imp.mod))
              ELSE env.tests
        popped == SubSeq(path1, 1, Len(path1) - 1)
    IN IF ~custom
       THEN [exc |-> NoException, env |-> env, path |-> popped, modules |-> sysModules,
             imported |-> "none",
             trace |-> <<"sys.path.append", "find_loader", "sys.path.pop">>]
       ELSE IF imp.exc # NoException
       THEN [exc |-> imp.exc, env |-> env, path |-> path1, modules |-> imp.modules,
             imported |-> "none",
             trace |-> <<"sys.path.append", "find_loader", "import">>]
       ELSE [exc |-> NoException, env |-> [env EXCEPT !.filters = f1, !.tests = t1],
             path |-> popped, modules |-> imp.modules, imported |-> imp.mod,
             trace |-> <<"sys.path.append", "find_loader", "import", "update",
                         "sys.path.pop">>]

(***************************************************************************)
(* Evaluation                                                              *)
(***************************************************************************)
\* template.render(context): the chunks in order; a name the context lacks is
\* an UndefinedError under StrictUndefined and the empty string under
\* jinja2's default Undefined.  The joined text exists only once every chunk
\* has been produced.
RECURSIVE RenderSegs(_, _, _, _)
RenderSegs(segs, context, policy, acc) ==
    IF segs = <<>> THEN [exc |-> NoException, text |-> acc]
    ELSE LET s == Head(segs)
         IN IF s.kind = "lit"
            THEN RenderSegs(Tail(segs), context, policy, Append(acc, s.val))
            ELSE IF s.val \in DOMAIN context
            THEN RenderSegs(Tail(segs), context, policy, Append(acc, context[s.val]))
            ELSE IF policy = "strict"
            THEN [exc |-> Exception("UndefinedError", s.val), text |-> <<>>]
            ELSE RenderSegs(Tail(segs), context, policy, Append(acc, ""))

NotLoaded ==
    [exc |-> NoException, contents |-> <<>>, filename |-> NoPath,
     uptodate |-> FALSE, bytes |-> NoBytes, opens |-> 0]

\* env.get_template(template_path).render(context).encode('utf-8')
GetTemplateAndRender(env, template_path, context) ==
    LET src == get_source(env.loader, template_path)
        r == RenderSegs(src.contents, context, env.undefined, <<>>)
    IN IF src.exc # NoException
       THEN [exc |-> src.exc, output |-> NoBytes, src |-> src,
             trace |-> <<"get_source">>]
       ELSE IF r.exc # NoException
       THEN [exc |-> r.exc, output |-> NoBytes, src |-> src,
             trace |-> <<"get_source", "render">>]
       ELSE [exc |-> NoException, output |-> Encode(r.text), src |-> src,
             trace |-> <<"get_source", "render", "encode">>]

\* The steps in the order "load template, load extension module, evaluate".
render_template_load_first(cwd, template_path, context, custom_filters) ==
    LET env0 == Environment(cwd)
        env1 == [env0 EXCEPT !.filters = ("docker_link" :> DockerLink) @@ @]
        t == GetTemplateAndRender(env1, template_path, context)
        c == RegisterCustoms(env1, custom_filters)
        ok == t.src.exc = NoException /\ c.exc = NoException
        t2 == GetTemplateAndRender(c.env, template_path, context)
    IN [exc |-> IF t.src.exc # NoException THEN t.src.exc
                ELSE IF c.exc # NoException THEN c.exc ELSE t2.exc,
        output |-> IF ok THEN t2.output ELSE NoBytes,
        filters |-> IF t.src.exc # NoException THEN env1.filters ELSE c.env.filters,
        tests |-> IF t.src.exc # NoException THEN env1.tests ELSE c.env.tests,
        imported |-> IF t.src.exc # NoException THEN "none" ELSE c.imported,
        src |-> t.src,
        path |-> IF t.src.exc # NoException THEN sysPath ELSE c.path,
        modules |-> IF t.src.exc # NoException THEN sysModules ELSE c.modules,
        trace |-> <<"Environment", "get_source">>
                    \o (IF t.src.exc # NoException THEN <<>> ELSE c.trace)
                    \o (IF ok THEN SubSeq(t2.trace, 2, Len(t2.trace)) ELSE <<>>)]

\* render_template(cwd, template_path, context, custom_filters): what it
\* raises or returns, the registry and the loaded source as they are when it
\* ends, sys.path and sys.modules as it leaves them, and its steps in order.
render_template(cwd, template_path, context, custom_filters) ==
    LET env0 == Environment(cwd)
        env1 == [env0 EXCEPT !.filters = ("docker_link" :> DockerLink) @@ @]
        c == RegisterCustoms(env1, custom_filters)
        t == GetTemplateAndRender(c.env, template_path, context)
    IN IF c.exc # NoException
       THEN [exc |-> c.exc, output |-> NoBytes,
             filters |-> c.env.filters, tests |-> c.env.tests, imported |-> c.imported,
             src |-> NotLoaded, path |-> c.path, modules |-> c.modules,
             trace |-> <<"Environment">> \o c.trace]
       ELSE [exc |-> t.exc, output |-> t.output,
             filters |-> c.env.filters, tests |-> c.env.tests, imported |-> c.imported,
             src |-> t.src, path |-> c.path, modules |-> c.modules,
             trace |-> <<"Environment">> \o c.trace \o t.trace]

(***************************************************************************)
(* render_command                                                          *)
(***************************************************************************)
\* FORMATS of j2cli.context: the format names.
FORMATS == {"env", "json", "yaml", "ini"}

\* The `data` arguments: '-' (the default: no data path) and two paths.
NoDataArg == [name |-> "-", ext |-> ""]
DataArgs == {NoDataArg, [name |-> "data.json", ext |-> ".json"],
             [name |-> "data.txt", ext |-> ".txt"]}

\* Input documents: {"name": "hi"} and name=yo.
JsonDoc == "{\"name\": \"hi\"}"
EnvDoc == "name=yo"
Docs == {JsonDoc, EnvDoc}
NoDoc == "(no such file)"

Environs == {("name" :> "from-environ")}

\* The parsers of j2cli.context on the two documents: JSON text is a YAML
\* mapping too; the env parser skips lines without '='; INI needs a section.
ParseDoc(format, doc) ==
    IF format \in {"json", "yaml"} /\ doc = JsonDoc
    THEN [exc |-> NoException, context |-> ("name" :> "hi")]
    ELSE IF format = "env"
    THEN [exc |-> NoException,
          context |-> IF doc = EnvDoc THEN ("name" :> "yo") ELSE NoNames]
    ELSE [exc |-> Exception("ParseError", format), context |-> NoNames]

NoStream == [kind |-> "None", doc |-> NoDoc]

\* read_context_data(format, f, environ) of j2cli.context: without a data
\* source only env is legal, and its context is the environment; with one,
\* the source is read and parsed.
read_context_data(format, f, environ) ==
    IF f = NoStream
    THEN IF format = "env"
         THEN [exc |-> NoException, context |-> environ, read |-> "None"]
         ELSE [exc |-> Exception("ConfigError", format), context |-> NoNames,
               read |-> "None"]
    ELSE LET p == ParseDoc(format, f.doc)
         IN [exc |-> p.exc, context |-> p.context, read |-> f.kind]

\* "Input: guess format": '?' becomes env without a data path, else the
\* format of the extension of the path; the dict lookup raises KeyError.
GuessFormat(format, data) ==
    IF format # "?" THEN [exc |-> NoException, format |-> format]
    ELSE IF data.name = "-" THEN [exc |-> NoException, format |-> "env"]
    ELSE IF data.ext = ".ini" THEN [exc |-> NoException, format |-> "ini"]
    ELSE IF data.ext = ".json" THEN [exc |-> NoException, format |-> "json"]
    ELSE IF data.ext \in {".yml", ".yaml"} THEN [exc |-> NoException, format |-> "yaml"]
    ELSE IF data.ext = ".env" THEN [exc |-> NoException, format |-> "env"]
    ELSE [exc |-> Exception("KeyError", data.ext), format |-> "?"]

\* No data source for any format when no data path is given.
InputDataFNoneWithoutPath(format, data, stdin, dataFile) ==
    IF data.name = "-"
    THEN [exc |-> NoException, f |-> NoStream]
    ELSE IF dataFile = NoDoc
    THEN [exc |-> Exception("IOError", "ENOENT"), f |-> NoStream]
    ELSE [exc |-> NoException, f |-> [kind |-> "file", doc |-> dataFile]]

\* "Input: data": None for env without a data path, stdin for another format
\* without a data path, else the opened data file.
InputDataF(format, data, stdin, dataFile) ==
    IF data.name = "-" /\ format = "env"
    THEN [exc |-> NoException, f |-> NoStream]
    ELSE IF data.name = "-"
    THEN [exc |-> NoException, f |-> [kind |-> "stdin", doc |-> stdin]]
    ELSE IF dataFile = NoDoc
    THEN [exc |-> Exception("IOError", "ENOENT"), f |-> NoStream]
    ELSE [exc |-> NoException, f |-> [kind |-> "file", doc |-> dataFile]]

NotRendered ==
    [exc |-> NoException, output |-> NoBytes, filters |-> NoNames, tests |-> NoNames,
     imported |-> "none", src |-> NotLoaded, path |-> sysPath, modules |-> sysModules,
     trace |-> <<>>]

\* render_command(cwd, environ, stdin, argv), argv parsed into args: what it
\* raises or returns, the format and data source it settled on, the stream
\* it read, the context, the render, and its steps in order.
render_command(cwd, environ, stdin, dataFile, args) ==
    LET g == GuessFormat(args.format, args.data)
        i == InputDataF(g.format, args.data, stdin, dataFile)
        c == read_context_data(g.format, i.f, environ)
        r == render_template(cwd, args.template, c.context, args.custom_filters)
        stop(e, fmt, f, rd, tr) ==
            [exc |-> e, output |-> NoBytes, format |-> fmt, f |-> f, read |-> rd,
             hasContext |-> FALSE, context |-> NoNames, r |-> NotRendered, trace |-> tr]
    IN IF g.exc # NoException
       THEN stop(g.exc, g.format, NoStream.kind, "None", <<"parse_args">>)
       ELSE IF i.exc # NoException
       THEN stop(i.exc, g.format, NoStream.kind, "None", <<"parse_args">>)
       ELSE IF c.exc # NoException
       THEN stop(c.exc, g.format, i.f.kind, c.read, <<"parse_args", "read_context_data">>)
       ELSE [exc |-> r.exc, output |-> r.output, format |-> g.format, f |-> i.f.kind,
             read |-> c.read, hasContext |-> TRUE, context |-> c.context, r |-> r,
             trace |-> <<"parse_args", "read_context_data">> \o r.trace]

NoCall == [op |-> "none"]

Init ==
    /\ files = [d \in Dirs |-> NoFile]
    /\ extMod = "absent"
    /\ sysPath = <<"site-packages">>
    /\ sysModules = "none"
    /\ lastRead = NoBytes
    /\ call = NoCall

\* Another process creates, rewrites, removes or chmods a template file.
WriteFile(d, st) ==
    /\ files[d] # st
    /\ files' = [files EXCEPT ![d] = st]
    /\ call' = NoCall
    /\ UNCHANGED <<extMod, sysPath, sysModules, lastRead>>

\* A caller builds FilePathLoader(cwd) and asks it for a template.
GetSource(cwd, template) ==
    \E r \in {get_source(cwd, template)} :
       /\ call' = [op |-> "get_source", cwd |-> cwd, template |-> template, src |-> r]
       /\ lastRead' = IF r.exc = NoException THEN r.bytes ELSE lastRead
       /\ UNCHANGED <<files, extMod, sysPath, sysModules>>

\* Another process installs, replaces or removes jinja2_custom.py.
InstallExt(k) ==
    /\ extMod # k
    /\ extMod' = k
    /\ call' = NoCall
    /\ UNCHANGED <<files, sysPath, sysModules, lastRead>>

\* One call of render_template.
RenderTemplate(cwd, template_path, context, custom_filters) ==
    \E r \in {render_template(cwd, template_path, context, custom_filters)} :
       /\ Len(sysPath) < MaxPathLen
       /\ call' = [op |-> "render_template", cwd |-> cwd, template |-> template_path,
                   context |-> context, custom |-> custom_filters,
                   pathBefore |-> sysPath, modulesBefore |-> sysModules,
                   prevRead |-> lastRead, r |-> r]
       /\ sysPath' = r.path
       /\ sysModules' = r.modules
       /\ lastRead' = IF r.src.exc = NoException /\ r.src.opens > 0
                      THEN r.src.bytes ELSE lastRead
       /\ UNCHANGED <<files, extMod>>

\* Renders of the template t.j2 of the working directory.
Next ==
    \/ \E st \in FileStates : WriteFile(ProcCwd, st)
    \/ \E k \in ExtKinds : InstallExt(k)
    \/ \E cwd \in Dirs, t \in {RelPath("t.j2")}, ctx \in Contexts, cf \in BOOLEAN :
            RenderTemplate(cwd, t, ctx, cf)

Spec == Init /\ [][Next]_vars

\* One run of the command, as main() starts it: cwd is os.getcwd().
RenderCommand(environ, stdin, dataFile, args) ==
    \E k \in {render_command(ProcCwd, environ, stdin, dataFile, args)} :
       /\ Len(sysPath) < MaxPathLen
       /\ call' = [op |-> "render_command", args |-> args, environ |-> environ,
                   stdin |-> stdin, pathBefore |-> sysPath,
                   modulesBefore |-> sysModules, k |-> k]
       /\ sysPath' = k.r.path
       /\ sysModules' = k.r.modules
       /\ lastRead' = IF k.r.src.exc = NoException /\ k.r.src.opens > 0
                      THEN k.r.src.bytes ELSE lastRead
       /\ UNCHANGED <<files, extMod>>

\* Parsed command lines: every format without a data path, three with a
\* .json path, and a path whose extension names no format.
Args ==
    {a \in [custom_filters : BOOLEAN, format : {"?"} \cup FORMATS,
            template : {RelPath("t.j2")}, data : DataArgs] :
        \/ a.data = NoDataArg
        \/ a.data.ext = ".json" /\ a.format \in {"?", "json", "env"}
        \/ a.data.ext = ".txt" /\ a.format = "?"}

\* Runs of the command on the template t.j2 of the working directory.
NextCmd ==
    \/ \E st \in FileStates : WriteFile(ProcCwd, st)
    \/ \E k \in {"absent", "broken", "full"} : InstallExt(k)
    \/ \E environ \in Environs, args \in Args :
        \E stdin \in (IF args.data = NoDataArg THEN Docs ELSE {EnvDoc}),
           dataFile \in (IF args.data = NoDataArg THEN {NoDoc} ELSE {JsonDoc, NoDoc}) :
            RenderCommand(environ, stdin, dataFile, args)

SpecCmd == Init /\ [][NextCmd]_vars

NextLoader ==
    \/ \E d \in Dirs, st \in FileStates : WriteFile(d, st)
    \/ \E cwd \in Dirs, t \in TemplateArgs : GetSource(cwd, t)

SpecLoader == Init /\ [][NextLoader]_vars

(***************************************************************************)
(* Properties of get_source, checked under SpecLoader                      *)
(***************************************************************************)
\* The file open() resolves the template argument to.
FileRead(template) == files[PathJoin(ProcCwd, template).dir]

\* C6: a template file that cannot be opened or read makes get_source raise
\* TemplateNotFound, an IOError never reaches the caller, and what get_source
\* returns is the whole decoded content of the file.
C6_TemplateNotFound ==
    call.op = "get_source" =>
        LET st == FileRead(call.template)
            r == call.src
        IN /\ st.errno # "" => r.exc = Exception("TemplateNotFound", call.template.name)
           /\ r.exc.type # "IOError"
           /\ r.exc = NoException =>
                st.errno = "" /\ st.bytes.valid /\ r.contents = st.bytes.text

C6_Witness ==
    /\ call.op = "get_source"
    /\ FileRead(call.template).errno = "EACCES"
    /\ call.src.exc.type = "TemplateNotFound"

IsRender == call.op = "render_template"

Steps(r) == {r.trace[i] : i \in 1..Len(r.trace)}

\* The names a template outputs that a context does not define.
MissingNames(segs, context) ==
    {segs[i].val : i \in {j \in 1..Len(segs) :
                            segs[j].kind = "var" /\ segs[j].val \notin DOMAIN context}}

\* C1: a render that evaluates a template with a name the context lacks
\* raises UndefinedError for such a name and returns no bytes.
C1_StrictUndefined ==
    (IsRender /\ "render" \in Steps(call.r)
        /\ MissingNames(call.r.src.contents, call.context) # {}) =>
            /\ call.r.exc.type = "UndefinedError"
            /\ call.r.exc.arg \in MissingNames(call.r.src.contents, call.context)
            /\ call.r.output = NoBytes

\* {{ name }}{{ missing }} against {name: "hi"}.
C1_Witness ==
    /\ IsRender
    /\ call.r.src.contents = TplTwoVars
    /\ call.context = ("name" :> "hi")
    /\ call.r.exc = Exception("UndefinedError", "missing")

BuiltinFilters == ("upper" :> "jinja2.filters.do_upper") @@ ("docker_link" :> DockerLink)

Observed(r) == [exc |-> r.exc, output |-> r.output, filters |-> r.filters, tests |-> r.tests]

\* C2: with no jinja2_custom on the search path, a render with extension
\* loading enabled raises and returns what the same render with it disabled
\* does, with the same registries, which hold the built-in entries only.
C2_AbsentModuleIgnored ==
    extMod = "absent" =>
        /\ \A cwd \in Dirs, t \in TemplateArgs, ctx \in Contexts :
                Observed(render_template(cwd, t, ctx, TRUE))
                    = Observed(render_template(cwd, t, ctx, FALSE))
        /\ (IsRender /\ call.custom) =>
                /\ call.r.exc.type \notin {"ImportError", "RuntimeError"}
                /\ call.r.filters = BuiltinFilters
                /\ call.r.tests = DefaultTests

C2_Witness ==
    /\ IsRender /\ call.custom /\ extMod = "absent"
    /\ call.r.exc = NoException
    /\ call.r.output = Utf8(<<"port=", "hi">>)

\* A call in which `import jinja2_custom` executed the module and it raised.
LoadRaised == IsRender /\ call.custom /\ extMod = "broken" /\ call.modulesBefore = "none"

\* C3: when the module is found and raises while it is loaded, the render
\* raises that very error and neither loads nor evaluates the template.
C3_BrokenModuleFatal ==
    LoadRaised =>
        /\ call.r.exc = ModuleRaises
        /\ call.r.output = NoBytes
        /\ Steps(call.r) \cap {"sys.path.pop", "get_source", "render", "encode"} = {}

C3_Witness == LoadRaised /\ call.r.exc = ModuleRaises

\* C4: once the module is imported, the registries map every name of FILTERS
\* and TESTS to the module's callable, also a name jinja2 or j2cli registered;
\* every other entry is the built-in one; a missing collection changes
\* nothing and is no error.
C4_ExtensionEntriesWin ==
    (IsRender /\ call.r.imported # "none") =>
        LET m == call.r.imported
            F == IF HasFilters(m) THEN ModFilters(m) ELSE NoNames
            T == IF HasTests(m) THEN ModTests(m) ELSE NoNames
        IN /\ DOMAIN call.r.filters = DOMAIN BuiltinFilters \cup DOMAIN F
           /\ \A n \in DOMAIN call.r.filters :
                call.r.filters[n] = IF n \in DOMAIN F THEN F[n] ELSE BuiltinFilters[n]
           /\ DOMAIN call.r.tests = DOMAIN DefaultTests \cup DOMAIN T
           /\ \A n \in DOMAIN call.r.tests :
                call.r.tests[n] = IF n \in DOMAIN T THEN T[n] ELSE DefaultTests[n]
           /\ call.r.exc.type \notin {"AttributeError", "ImportError", "RuntimeError"}
           /\ "get_source" \in Steps(call.r)

\* The module's docker_link has replaced j2cli's when the template is evaluated.
C4_Witness ==
    /\ IsRender /\ call.r.imported = "full"
    /\ "render" \in Steps(call.r)
    /\ call.r.filters["docker_link"] = "jinja2_custom.docker_link"
    /\ call.r.tests = ("mytest" :> "jinja2_custom.mytest") @@ DefaultTests

\* What a render of the file as it is now gives.
RenderOfFile(st, context) ==
    IF st.errno # "" THEN [exc |-> Exception("TemplateNotFound", "t.j2"), output |-> NoBytes]
    ELSE IF ~st.bytes.valid
    THEN [exc |-> Exception("UnicodeDecodeError", "utf-8"), output |-> NoBytes]
    ELSE LET r == RenderSegs(st.bytes.text, context, "strict", <<>>)
         IN IF r.exc # NoException THEN [exc |-> r.exc, output |-> NoBytes]
            ELSE [exc |-> NoException, output |-> Utf8(r.text)]

FreshRead ==
    LET st == FileRead(call.template)
    IN /\ call.r.src.opens = 1
       /\ st.errno = "" => call.r.src.bytes = st.bytes
       /\ [exc |-> call.r.exc, output |-> call.r.output] = RenderOfFile(st, call.context)

\* C8 as stated: every call opens and reads the template file exactly once
\* and renders the content the file has at the time of the call.
C8_Original == IsRender => FreshRead

\* C8 as amended: a call that does not fail while importing jinja2_custom
\* opens and reads the template file exactly once and renders the content
\* the file has at the time of the call, whatever earlier calls read; a call
\* that fails in the import never opens the file.
C8_NoCaching ==
    IsRender =>
        IF call.r.trace[Len(call.r.trace)] = "import"
        THEN call.r.src.opens = 0 /\ call.r.exc \in {ModuleRaises}
        ELSE FreshRead

\* A render of a file whose bytes differ from those the call before it read.
C8_Witness ==
    /\ IsRender
    /\ call.r.exc = NoException
    /\ call.prevRead.valid
    /\ call.prevRead # call.r.src.bytes

\* C10: when a render_template call has ended, sys.path is what it was
\* before the call.
C10_SysPathRestored == IsRender => sysPath = call.pathBefore

(***************************************************************************)
(* Properties of render_command, checked under SpecCmd                     *)
(***************************************************************************)
IsCommand == call.op = "render_command"

NoDataNonEnv ==
    IsCommand /\ call.args.data = NoDataArg /\ call.args.format \in {"json", "yaml", "ini"}

\* C5 as stated: without a data path and with format json, yaml or ini the
\* command raises ConfigError, reads no stream, builds no context and does
\* not render.
C5_Original ==
    NoDataNonEnv =>
        /\ call.k.exc.type = "ConfigError"
        /\ call.k.read = "None"
        /\ ~call.k.hasContext
        /\ call.k.r.trace = <<>>

\* C5 as amended: without a data path, format json, yaml or ini makes the
\* standard input the data source: it is read and parsed in that format, no
\* ConfigError is raised, and the template is rendered against the parsed
\* context unless parsing fails.  Only env (chosen or guessed) reads no
\* stream: its context is the environment.
C5_StdinIsDataSource ==
    (IsCommand /\ call.args.data = NoDataArg) =>
        IF call.k.format = "env"
        THEN /\ call.args.format \in {"?", "env"}
             /\ call.k.f = "None" /\ call.k.read = "None"
             /\ call.k.hasContext /\ call.k.context = call.environ
        ELSE /\ call.k.format = call.args.format
             /\ call.k.f = "stdin" /\ call.k.read = "stdin"
             /\ call.k.exc.type # "ConfigError"
             /\ LET p == ParseDoc(call.k.format, call.stdin)
                IN IF p.exc # NoException
                   THEN call.k.exc = p.exc /\ ~call.k.hasContext /\ call.k.r.trace = <<>>
                   ELSE /\ call.k.hasContext /\ call.k.context = p.context
                        /\ "Environment" \in Steps(call.k.r)

\* -f json without a data path renders the JSON document on stdin.
C5_Witness ==
    /\ NoDataNonEnv
    /\ call.args.format = "json" /\ call.stdin = JsonDoc
    /\ call.k.read = "stdin"
    /\ call.k.exc = NoException
    /\ call.k.output = Utf8(<<"port=", "hi">>)

Pos(tr, e) == CHOOSE i \in 1..Len(tr) : tr[i] = e

Before(tr, a, b) ==
    ((\E i \in 1..Len(tr) : tr[i] = a) /\ (\E i \in 1..Len(tr) : tr[i] = b))
        => Pos(tr, a) < Pos(tr, b)

\* A command that got as far as calling render_template.
Rendering == IsCommand /\ call.k.r.trace # <<>>

\* C9 as stated: the template file is loaded before the extension module is
\* located and loaded, so a render whose template file is missing raises
\* TemplateNotFound and never loads the module.
C9_Original ==
    Rendering =>
        /\ "get_source" \in Steps(call.k)
        /\ Before(call.k.trace, "get_source", "find_loader")
        /\ Before(call.k.trace, "get_source", "import")
        /\ FileRead(call.args.template).errno # "" =>
                call.k.exc.type = "TemplateNotFound" /\ "import" \notin Steps(call.k)

\* C9 as amended: the steps are: build context, locate and (when enabled and
\* found) load the extension module, load template, evaluate, return bytes.
\* The module is located and loaded before the template file is opened, so a
\* render whose template file is missing raises TemplateNotFound only when
\* the import does not raise; when it raises, the render raises the module's
\* error and never opens the template file.
C9_ExtensionBeforeTemplate ==
    Rendering =>
        LET tr == call.k.trace
        IN /\ tr[1] = "parse_args" /\ tr[2] = "read_context_data" /\ tr[3] = "Environment"
           /\ "find_loader" \in Steps(call.k)
           /\ Before(tr, "find_loader", "import")
           /\ Before(tr, "find_loader", "get_source")
           /\ Before(tr, "import", "get_source")
           /\ Before(tr, "sys.path.pop", "get_source")
           /\ Before(tr, "get_source", "render")
           /\ Before(tr, "render", "encode")
           /\ call.k.exc = NoException <=> tr[Len(tr)] = "encode"
           /\ FileRead(call.args.template).errno # "" =>
                IF tr[Len(tr)] = "import"
                THEN call.k.exc = ModuleRaises /\ "get_source" \notin Steps(call.k)
                ELSE call.k.exc.type = "TemplateNotFound" /\ tr[Len(tr)] = "get_source"

\* Template missing, module present and broken, loading enabled.
C9_Witness ==
    /\ Rendering
    /\ FileRead(call.args.template).errno = "ENOENT"
    /\ call.args.custom_filters /\ extMod = "broken"
    /\ call.k.exc = ModuleRaises
    /\ "get_source" \notin Steps(call.k)

====
